---- MODULE Spec2Model ----
(***************************************************************************)
(* A model of the vite-mini development server                              *)
(* (src/packages/vite-mini/index.js): the request middleware with its      *)
(* pre-bundle cache, the import rewriters and the .vue branch.              *)
(*                                                                         *)
(* Text is a sequence of one-character strings; offsets are the 0-based    *)
(* offsets of JavaScript, converted where a sequence is indexed.           *)
(***************************************************************************)
EXTENDS Integers, Sequences, FiniteSets, TLC

(***************************************************************************)
(* JavaScript string primitives used by the source.                        *)
(***************************************************************************)
Min(a, b) == IF a < b THEN a ELSE b

Max(a, b) == IF a > b THEN a ELSE b

\* String.prototype.slice(a, b) / substring(a, b) for 0 <= a, b: the offsets
\* are clamped to the length, and an empty range gives the empty string.
Slice(str, a, b) ==
  LET lo == Min(Max(a, 0), Len(str))
      hi == Min(Max(b, 0), Len(str))
  IN  IF lo >= hi THEN << >> ELSE SubSeq(str, lo + 1, hi)

\* String.prototype.slice(a)
SliceFrom(str, a) == Slice(str, a, Len(str))

\* String.prototype.startsWith(p)
StartsWith(str, p) == Len(p) <= Len(str) /\ SubSeq(str, 1, Len(p)) = p

\* String.prototype.endsWith(p)
EndsWith(str, p) ==
  Len(p) <= Len(str) /\ SubSeq(str, Len(str) - Len(p) + 1, Len(str)) = p

\* whether str holds p at the 0-based offset i
MatchAt(str, p, i) == i >= 0 /\ i + Len(p) <= Len(str) /\ Slice(str, i, i + Len(p)) = p

\* String.prototype.indexOf(p, from): the least offset >= from, or -1
IndexOfFrom(str, p, from) ==
  LET hits == {i \in from..Len(str) : MatchAt(str, p, i)}
  IN  IF hits = {} THEN -1 ELSE CHOOSE i \in hits : \A j \in hits : i <= j

IndexOf(str, p) == IndexOfFrom(str, p, 0)

(***************************************************************************)
(* es-module-lexer's parse(code), reduced to the forms the module texts    *)
(* below are made of: import'<spec>' (static), import('<spec>') and         *)
(* import(<expr>) (dynamic), import.meta, and double-quoted strings, whose  *)
(* content is not scanned.  Each occurrence is a record: s, e the 0-based  *)
(* span; d = -1 static, -2 import.meta, else the offset of the bracket of  *)
(* a dynamic import; n the specifier (hasN = FALSE: n is undefined).  For  *)
(* a dynamic import the span s..e holds the argument as written, quotes    *)
(* included, and n the literal without them.                               *)
(***************************************************************************)
KwImport == <<"i", "m", "p", "o", "r", "t">>

KwMeta == <<".", "m", "e", "t", "a">>

Occurrence(start, end, dyn, hasName, name) ==
  [s |-> start, e |-> end, d |-> dyn, hasN |-> hasName, n |-> name]

RECURSIVE Lex(_, _)
\* a double-quoted string literal opening at i: its content is skipped
LexString(code, i) ==
  LET close == IndexOfFrom(code, <<"\"">>, i + 1)
  IN  IF close = -1 THEN << >> ELSE Lex(code, close + 1)

\* import'<spec>' with the opening quote at j
LexStatic(code, j) ==
  LET close == IndexOfFrom(code, <<"'">>, j + 1)
  IN  IF close = -1 THEN << >>
      ELSE <<Occurrence(j + 1, close, -1, TRUE, Slice(code, j + 1, close))>>
             \o Lex(code, close + 1)

\* import('<spec>') with the bracket at j
LexDynamicLiteral(code, j) ==
  LET close == IndexOfFrom(code, <<"'">>, j + 2)
  IN  IF close = -1 THEN << >>
      ELSE <<Occurrence(j + 1, close + 1, j, TRUE, Slice(code, j + 2, close))>>
             \o Lex(code, close + 1)

\* import(<expr>) with the bracket at j
LexDynamicExpr(code, j) ==
  LET close == IndexOfFrom(code, <<")">>, j + 1)
  IN  IF close = -1 THEN << >>
      ELSE <<Occurrence(j + 1, close, j, FALSE, << >>)>> \o Lex(code, close)

\* the keyword import at i
LexImport(code, i) ==
  LET j == i + Len(KwImport)
  IN  CASE MatchAt(code, <<"'">>, j) -> LexStatic(code, j)
        [] MatchAt(code, <<"(", "'">>, j) -> LexDynamicLiteral(code, j)
        [] MatchAt(code, <<"(">>, j) /\ ~MatchAt(code, <<"(", "'">>, j) ->
             LexDynamicExpr(code, j)
        [] MatchAt(code, KwMeta, j) ->
             <<Occurrence(i, j + Len(KwMeta), -2, FALSE, << >>)>>
               \o Lex(code, j + Len(KwMeta))
        [] OTHER -> Lex(code, i + 1)

Lex(code, i) ==
  CASE i >= Len(code) -> << >>
    [] i < Len(code) /\ MatchAt(code, <<"\"">>, i) -> LexString(code, i)
    [] i < Len(code) /\ MatchAt(code, KwImport, i) -> LexImport(code, i)
    [] OTHER -> Lex(code, i + 1)

parse(code) == Lex(code, 0)

(***************************************************************************)
(* rewriteImports: bare specifiers become /@modules/<name>; the            *)
(* occurrences are replaced from the last to the first, by slicing.        *)
(***************************************************************************)
ModulesPrefix == <<"/", "@", "m", "o", "d", "u", "l", "e", "s", "/">>

\* name && !name.startsWith("/") && !name.startsWith(".")
IsBareName(imp) ==
  /\ imp.hasN
  /\ imp.n # << >>
  /\ ~StartsWith(imp.n, <<"/">>)
  /\ ~StartsWith(imp.n, <<".">>)

\* `/@modules/${name}`
BareUrl(name) == ModulesPrefix \o name

\* rewrittenCode.slice(0, start) + rewritten + rewrittenCode.slice(end)
Splice(text, start, end, rewritten) ==
  Slice(text, 0, start) \o rewritten \o SliceFrom(text, end)

\* the loop body for the occurrences imports[1..k], the last one first
RECURSIVE RewriteFromEnd(_, _, _)
RewriteFromEnd(rewrittenCode, imports, k) ==
  IF k < 1 THEN rewrittenCode
  ELSE LET imp == imports[k]
       IN  IF IsBareName(imp)
           THEN RewriteFromEnd(Splice(rewrittenCode, imp.s, imp.e, BareUrl(imp.n)),
                               imports, k - 1)
           ELSE RewriteFromEnd(rewrittenCode, imports, k - 1)

\* the same loop run from the first occurrence to the last, with the
\* offsets of the original text: what the backward order avoids
RECURSIVE RewriteFromStart(_, _, _)
RewriteFromStart(rewrittenCode, imports, k) ==
  IF k > Len(imports) THEN rewrittenCode
  ELSE LET imp == imports[k]
       IN  IF IsBareName(imp)
           THEN RewriteFromStart(Splice(rewrittenCode, imp.s, imp.e, BareUrl(imp.n)),
                                 imports, k + 1)
           ELSE RewriteFromStart(rewrittenCode, imports, k + 1)

rewriteImportsForward(code) == RewriteFromStart(code, parse(code), 1)

rewriteImports(code) == RewriteFromEnd(code, parse(code), Len(parse(code)))

(***************************************************************************)
(* node:path (posix) on the paths resolveImports handles.  A path is       *)
(* split into its segments; an absolute path is the list of its segments   *)
(* from the filesystem root.                                               *)
(***************************************************************************)
\* the segments of a path: the non-empty pieces between the "/"
RECURSIVE Segments(_)
Segments(p) ==
  IF p = << >> THEN << >>
  ELSE LET cut == IndexOf(p, <<"/">>)
       IN  IF cut = -1 THEN <<p>>
           ELSE IF cut = 0 THEN Segments(SliceFrom(p, 1))
           ELSE <<Slice(p, 0, cut)>> \o Segments(SliceFrom(p, cut + 1))

\* segs joined by "/"
RECURSIVE JoinSegments(_)
JoinSegments(segs) ==
  IF segs = << >> THEN << >>
  ELSE IF Len(segs) = 1 THEN segs[1]
  ELSE segs[1] \o <<"/">> \o JoinSegments(Tail(segs))

\* the segments of an absolute path with "." dropped and ".." applied; ".."
\* at the filesystem root stays at the root
RECURSIVE NormalizeFrom(_, _)
NormalizeFrom(done, rest) ==
  IF rest = << >> THEN done
  ELSE IF rest[1] = <<".">> THEN NormalizeFrom(done, Tail(rest))
  ELSE IF rest[1] = <<".", ".">>
    THEN NormalizeFrom(IF done = << >> THEN << >> ELSE SubSeq(done, 1, Len(done) - 1),
                       Tail(rest))
  ELSE NormalizeFrom(Append(done, rest[1]), Tail(rest))

\* path.resolve(currentDir, importPath), importPath not absolute
PathResolve(currentDir, importPath) ==
  NormalizeFrom(<< >>, Segments(currentDir) \o Segments(importPath))

\* the length of the longest common prefix of two segment lists
RECURSIVE CommonLen(_, _)
CommonLen(a, b) ==
  IF a = << >> \/ b = << >> \/ a[1] # b[1] THEN 0
  ELSE 1 + CommonLen(Tail(a), Tail(b))

\* path.relative(from, to) of two absolute paths given by their segments
PathRelative(from, to) ==
  LET c == CommonLen(from, to)
  IN  JoinSegments([i \in 1..(Len(from) - c) |-> <<".", ".">>]
                     \o SubSeq(to, c + 1, Len(to)))

(***************************************************************************)
(* magic-string: the text as a list of chunks of the original; overwrite   *)
(* splits the chunks at both ends of the span, gives the first chunk of    *)
(* the span the new content and empties the others; toString joins the     *)
(* chunks' contents.                                                       *)
(***************************************************************************)
MagicString(code) ==
  <<[s |-> 0, e |-> Len(code), content |-> code, edited |-> FALSE]>>

RECURSIVE SplitChunks(_, _)
SplitChunks(chunks, pos) ==
  IF chunks = << >> THEN << >>
  ELSE LET c == chunks[1]
       IN  IF c.s < pos /\ pos < c.e /\ ~c.edited
           THEN <<[c EXCEPT !.e = pos, !.content = Slice(c.content, 0, pos - c.s)],
                  [c EXCEPT !.s = pos, !.content = SliceFrom(c.content, pos - c.s)]>>
                  \o Tail(chunks)
           ELSE <<c>> \o SplitChunks(Tail(chunks), pos)

overwrite(chunks, start, end, content) ==
  LET split == SplitChunks(SplitChunks(chunks, start), end)
  IN  [i \in 1..Len(split) |->
         IF split[i].s = start /\ split[i].e <= end
           THEN [split[i] EXCEPT !.content = content, !.edited = TRUE]
         ELSE IF start < split[i].s /\ split[i].e <= end
           THEN [split[i] EXCEPT !.content = << >>, !.edited = TRUE]
         ELSE split[i]]

RECURSIVE toString(_)
toString(chunks) ==
  IF chunks = << >> THEN << >> ELSE chunks[1].content \o toString(Tail(chunks))

(***************************************************************************)
(* resolveImports: every static specifier that is not absolute is resolved *)
(* against currentDir and written back relative to the working directory.  *)
(***************************************************************************)
\* process.cwd(), which is also the default rootDir
Cwd == <<"/", "w">>

\* "/" + path.relative(process.cwd(), resolvedPath).replace(/\\/g, "/")
NormalizedPath(currentDir, importPath) ==
  <<"/">> \o PathRelative(Segments(Cwd), PathResolve(currentDir, importPath))

\* whether the loop body overwrites the occurrence: not dynamic, not absolute
IsResolved(code, imp) ==
  /\ ~(imp.d > -1)
  /\ ~StartsWith(Slice(code, imp.s, imp.e), <<"/">>)

RECURSIVE ResolveLoop(_, _, _, _, _)
ResolveLoop(magicString, code, imports, currentDir, i) ==
  IF i > Len(imports) THEN magicString
  ELSE LET imp == imports[i]
       IN  IF IsResolved(code, imp)
           THEN ResolveLoop(overwrite(magicString, imp.s, imp.e,
                                      NormalizedPath(currentDir, Slice(code, imp.s, imp.e))),
                            code, imports, currentDir, i + 1)
           ELSE ResolveLoop(magicString, code, imports, currentDir, i + 1)

resolveImports(code, currentDir) ==
  IF parse(code) = << >> THEN code
  ELSE toString(ResolveLoop(MagicString(code), code, parse(code), currentDir, 1))

(***************************************************************************)
(* The state.  The server: the requests being handled, each at one of the  *)
(* awaits of the middleware, and the pre-bundle cache.  The rewriters and  *)
(* the .vue branch are stateless: their inputs and outputs are recorded.   *)
(***************************************************************************)
VARIABLES
  req,        \* the requests: where each handler stands, and its response
  nreq,       \* the number of requests received
  depCache,   \* depCache: package id -> bundled text
  builds,     \* per package id, the number of calls of esbuild's build
  failed,     \* the package ids for which a call of build has failed
  jsUrl,      \* the url of the JavaScript module being rewritten
  jsCode,     \* its text
  jsOut,      \* the rewriter's output
  jsPhase,    \* "idle", "served" (by the .js branch), "resolved" (resolveImports)
  descriptor, \* the descriptor vueParse returned
  vueOut,     \* the pieces of combinedCode
  vuePhase    \* "idle", "parsed", "done"

serverVars == <<req, nreq, depCache, builds, failed>>

rewriteVars == <<jsUrl, jsCode, jsOut, jsPhase>>

vueVars == <<descriptor, vueOut, vuePhase>>

vars == <<req, nreq, depCache, builds, failed, jsUrl, jsCode, jsOut, jsPhase,
          descriptor, vueOut, vuePhase>>

(***************************************************************************)
(* Module texts: up to MaxStatements statements, each one of the forms     *)
(* the scanner distinguishes.                                              *)
(***************************************************************************)
MaxStatements == 2

StaticBare == KwImport \o <<"'", "v", "'", ";">>

StaticRelative == KwImport \o <<"'", ".", "/", "f", "'", ";">>

StaticParent == KwImport \o <<"'", ".", ".", "/", "f", "'", ";">>

StaticAbsolute == KwImport \o <<"'", "/", "f", "'", ";">>

DynamicBare == KwImport \o <<"(", "'", "v", "'", ")", ";">>

DynamicRelative == KwImport \o <<"(", "'", ".", "/", "f", "'", ")", ";">>

DynamicExpr == KwImport \o <<"(", "x", ")", ";">>

ImportMeta == KwImport \o KwMeta \o <<";">>

StringLiteral == <<"\"">> \o KwImport \o <<"'", "v", "'", "\"", ";">>

PlainStatement == <<"x", ";">>

Statements ==
  {StaticBare, StaticRelative, StaticParent, StaticAbsolute, DynamicBare,
   DynamicRelative, DynamicExpr, ImportMeta, StringLiteral, PlainStatement}

RECURSIVE TextsUpTo(_)
TextsUpTo(k) ==
  IF k = 0 THEN {<< >>}
  ELSE TextsUpTo(k - 1) \cup {t \o st : t \in TextsUpTo(k - 1), st \in Statements}

ModuleTexts == TextsUpTo(MaxStatements)

(***************************************************************************)
(* The filesystem under rootDir (= process.cwd()), which the server only   *)
(* reads: two installed packages, a package whose manifest is not JSON,    *)
(* an html page and a JavaScript module.                                   *)
(***************************************************************************)
ExtHtml == <<".", "h", "t", "m", "l">>

ExtJs == <<".", "j", "s">>

ExtCss == <<".", "c", "s", "s">>

ExtVue == <<".", "v", "u", "e">>

UrlRoot == <<"/">>

UrlIndex == <<"/", "i", "n", "d", "e", "x">> \o ExtHtml

UrlAppJs == <<"/", "s", "/", "a">> \o ExtJs

UrlTopJs == <<"/", "a">> \o ExtJs

UrlMissingCss == <<"/", "a">> \o ExtCss

\* a path that holds "@modules" but not as its prefix
UrlNested == <<"/", "x", "/", "@", "m", "o", "d", "u", "l", "e", "s">> \o ExtJs

PkgA == <<"a">>

PkgB == <<"b">>

PkgUnparsable == <<"u">>

PkgMissing == <<"m">>

\* what reading and parsing node_modules/<id>/package.json gives
PackageJson(id) ==
  IF id \in {PkgA, PkgB} THEN "ok"
  ELSE IF id = PkgUnparsable THEN "badjson"
  ELSE "enoent"

HtmlText == <<"<", "p", ">">>

Files == {UrlIndex, UrlAppJs}

FileContent(url) == IF url = UrlIndex THEN HtmlText ELSE StaticBare \o DynamicExpr

\* the texts esbuild may return for a package: a build need not be
\* deterministic
BundleTexts == {<<"t", "1">>, <<"t", "2">>}

(***************************************************************************)
(* The middleware of createDevServer.  A handler runs from one await to    *)
(* the next without interleaving; the handlers of different requests       *)
(* interleave at the awaits (fs.readFile, build).                          *)
(***************************************************************************)
MaxRequests == 3

\* the length of "/@modules/", as written in url.slice(10)
PrefixLen == 10

ModulesMarker == <<"@", "m", "o", "d", "u", "l", "e", "s">>

\* the text of `Module not found: `
NotFoundMessage ==
  <<"M", "o", "d", "u", "l", "e", " ", "n", "o", "t", " ", "f", "o", "u", "n", "d", ":", " ">>

Requests == 1..MaxRequests

Urls ==
  {UrlRoot, UrlAppJs, UrlMissingCss, UrlNested, ModulesPrefix \o PkgA,
   ModulesPrefix \o PkgB, ModulesPrefix \o PkgUnparsable, ModulesPrefix \o PkgMissing}

\* context.request.url === "/" ? "/index.html" : context.request.url
EffectiveUrl(u) == IF u = UrlRoot THEN UrlIndex ELSE u

\* the branch of the middleware a url takes
Route(url) ==
  IF IndexOf(url, ModulesMarker) > -1 THEN "module"
  ELSE IF EndsWith(url, ExtHtml) THEN "html"
  ELSE IF EndsWith(url, ExtJs) THEN "js"
  ELSE IF EndsWith(url, ExtCss) THEN "css"
  ELSE IF EndsWith(url, ExtVue) THEN "vue"
  ELSE "other"

\* const id = url.slice(10)
ModuleId(url) == SliceFrom(url, PrefixLen)

PackageIds == {ModuleId(EffectiveUrl(u)) : u \in Urls}

\* a request not yet received; 404 is the status of a response nothing was
\* written to
NoRequest ==
  [pc |-> "idle", url |-> << >>, route |-> "none", id |-> << >>, status |-> 404,
   type |-> "", body |-> << >>, escaped |-> FALSE, cause |-> "none",
   retry |-> FALSE]

\* depCache.set(id, text)
CachePut(cache, id, text) ==
  [k \in DOMAIN cache \cup {id} |-> IF k = id THEN text ELSE cache[k]]

\* the @modules branch's try block completing: type and body are set
ModuleSuccess(rec, content) ==
  [rec EXCEPT !.pc = "done", !.status = 200, !.type = "application/javascript",
              !.body = content]

\* the same branch with no catch: the error leaves the middleware
ModuleFailureEscapes(rec, why) ==
  [rec EXCEPT !.pc = "done", !.escaped = TRUE, !.cause = why]

\* the @modules branch's catch block
ModuleFailure(rec, why) ==
  [rec EXCEPT !.pc = "done", !.status = 404, !.body = NotFoundMessage \o rec.id,
              !.cause = why]

\* a lookup that never finds the entry
NeverCached(id) == FALSE

\* depCache.has(id)
CacheHit(id) == id \in DOMAIN depCache

\* A request arrives: the url is classified and the handler runs to its
\* first await, the read of the manifest or of the file.
Receive(u) ==
  /\ nreq < MaxRequests
  /\ LET url == EffectiveUrl(u)
     IN  /\ Route(url) \in {"module", "html", "js", "css"}
         /\ req' = [req EXCEPT ![nreq + 1] =
                      [@ EXCEPT !.url = url, !.route = Route(url),
                                !.id = IF Route(url) = "module" THEN ModuleId(url)
                                       ELSE << >>,
                                !.pc = IF Route(url) = "module" THEN "readPkg"
                                       ELSE "readFile"]]
  /\ nreq' = nreq + 1
  /\ UNCHANGED <<depCache, builds, failed>>
  /\ UNCHANGED <<rewriteVars, vueVars>>

\* resolveBareModule settles.  On an error the catch block answers.
\* Otherwise optimizeDep is called: a hit returns the stored text and the
\* response is written; a miss calls build and awaits it.
PkgRead(r) ==
  /\ req[r].pc = "readPkg"
  /\ LET id == req[r].id
     IN  IF PackageJson(id) # "ok"
           THEN /\ req' = [req EXCEPT ![r] = ModuleFailure(@, PackageJson(id))]
                /\ UNCHANGED <<depCache, builds, failed>>
         ELSE IF CacheHit(id)
           THEN /\ req' = [req EXCEPT ![r] = ModuleSuccess(@, depCache[id])]
                /\ UNCHANGED <<depCache, builds, failed>>
         ELSE /\ req' = [req EXCEPT ![r].pc = "build", ![r].retry = (id \in failed)]
              /\ builds' = [builds EXCEPT ![id] = @ + 1]
              /\ UNCHANGED <<depCache, failed>>
  /\ UNCHANGED <<nreq, rewriteVars, vueVars>>

\* build resolves: the text is stored and returned, the response written.
BuildSucceed(r, text) ==
  /\ req[r].pc = "build"
  /\ depCache' = CachePut(depCache, req[r].id, text)
  /\ req' = [req EXCEPT ![r] = ModuleSuccess(@, text)]
  /\ UNCHANGED <<nreq, builds, failed, rewriteVars, vueVars>>

\* build rejects and an entry is left behind in the cache
BuildFailPoisons(r) ==
  /\ req[r].pc = "build"
  /\ depCache' = CachePut(depCache, req[r].id, << >>)
  /\ req' = [req EXCEPT ![r] = ModuleFailure(@, "buildfail")]
  /\ failed' = failed \cup {req[r].id}
  /\ UNCHANGED <<nreq, builds, rewriteVars, vueVars>>

\* build rejects: optimizeDep logs and rethrows, the catch block answers.
BuildFail(r) ==
  /\ req[r].pc = "build"
  /\ req' = [req EXCEPT ![r] = ModuleFailure(@, "buildfail")]
  /\ failed' = failed \cup {req[r].id}
  /\ UNCHANGED <<nreq, depCache, builds, rewriteVars, vueVars>>

\* fs.readFile settles in the .html, .js or .css branch.  Only the .js
\* branch catches a failed read; elsewhere the error leaves the middleware.
FileRead(r) ==
  /\ req[r].pc = "readFile"
  /\ LET rec == req[r]
     IN  req' = [req EXCEPT ![r] =
           IF rec.url \notin Files
             THEN IF rec.route = "js"
                    THEN [rec EXCEPT !.pc = "done", !.status = 404]
                  ELSE [rec EXCEPT !.pc = "done", !.escaped = TRUE]
           ELSE IF rec.route = "js"
             THEN [rec EXCEPT !.pc = "done", !.status = 200,
                              !.type = "application/javascript",
                              !.body = rewriteImports(FileContent(rec.url))]
           ELSE [rec EXCEPT !.pc = "done", !.status = 200,
                            !.type = IF rec.route = "html" THEN "text/html"
                                     ELSE "text/css",
                            !.body = FileContent(rec.url)]]
  /\ UNCHANGED <<nreq, depCache, builds, failed, rewriteVars, vueVars>>

NoDescriptor == [script |-> << >>, scriptSetup |-> << >>, template |-> << >>]

Init ==
  /\ req = [r \in Requests |-> NoRequest]
  /\ nreq = 0
  /\ depCache = [id \in {} |-> << >>]
  /\ builds = [id \in PackageIds |-> 0]
  /\ failed = {}
  /\ jsUrl = << >> /\ jsCode = << >> /\ jsOut = << >> /\ jsPhase = "off"
  /\ descriptor = NoDescriptor /\ vueOut = << >> /\ vuePhase = "off"

Next ==
  \/ \E u \in Urls : Receive(u)
  \/ \E r \in Requests : PkgRead(r)
  \/ \E r \in Requests, text \in BundleTexts : BuildSucceed(r, text)
  \/ \E r \in Requests : BuildFail(r)
  \/ \E r \in Requests : FileRead(r)

Spec == Init /\ [][Next]_vars

(***************************************************************************)
(* The pre-bundle cache and the @modules branch.                           *)
(***************************************************************************)
\* request r is a handled request of the @modules branch for package id
ServedModule(r, id) ==
  /\ req[r].pc = "done"
  /\ req[r].route = "module"
  /\ req[r].id = id
  /\ req[r].status = 200

\* in this step request r calls optimizeDep (its manifest was read)
CallsOptimizeDep(r) ==
  /\ req[r].pc = "readPkg"
  /\ req'[r].pc # "readPkg"
  /\ PackageJson(req[r].id) = "ok"

\* C1: requests for one uncached package that overlap share a single call
\* of build (no two handlers await a build of the same package at once),
\* and all of them are answered with the same text.
C1_SingleInFlightBuild ==
  \A r1 \in Requests, r2 \in Requests :
    (r1 # r2 /\ req[r1].id = req[r2].id) =>
      /\ ~(req[r1].pc = "build" /\ req[r2].pc = "build")
      /\ (ServedModule(r1, req[r1].id) /\ ServedModule(r2, req[r2].id))
           => req[r1].body = req[r2].body

\* C2: a call of optimizeDep for a package whose text is stored returns
\* the stored text and calls build for no package.
C2_HitReturnsStored ==
  [][\A r \in Requests :
       (CallsOptimizeDep(r) /\ req[r].id \in DOMAIN depCache) =>
         /\ builds' = builds
         /\ req'[r].pc = "done"
         /\ req'[r].status = 200
         /\ req'[r].body = depCache[req[r].id]
         /\ depCache' = depCache]_vars

\* C2's case: a package built once and served twice, the second time from
\* the cache, with a request for another package served as well
C2_Witness ==
  \E r1 \in Requests, r2 \in Requests, r3 \in Requests :
    /\ r1 < r2
    /\ ServedModule(r1, PkgA) /\ ServedModule(r2, PkgA)
    /\ builds[PkgA] = 1
    /\ ServedModule(r3, PkgB)

\* C3: a stored text never changes and no entry is removed.
C3_EntriesNeverChange ==
  [][\A id \in DOMAIN depCache :
       id \in DOMAIN depCache' /\ depCache'[id] = depCache[id]]_vars

\* in this step the build request r awaits rejects
BuildRejects(r) ==
  /\ req[r].pc = "build"
  /\ req'[r].pc = "done"
  /\ req'[r].cause = "buildfail"

\* C4: a failing build fails its request and leaves the cache as it was; a
\* later call for that package, still uncached, calls build again, and a
\* build that then succeeds stores the text it returns to the request.
C4_FailureDoesNotPoison ==
  [][\A r \in Requests :
       /\ BuildRejects(r) =>
            /\ depCache' = depCache
            /\ req'[r].status = 404
       /\ (CallsOptimizeDep(r) /\ req[r].id \in failed
             /\ req[r].id \notin DOMAIN depCache) =>
            /\ req'[r].pc = "build"
            /\ builds'[req[r].id] = builds[req[r].id] + 1
       /\ (req[r].pc = "build" /\ req[r].retry /\ req'[r].status = 200) =>
            /\ req[r].id \in DOMAIN depCache'
            /\ depCache'[req[r].id] = req'[r].body]_vars

\* C4's case: a build of the package failed, a later request built it again
\* and was served the text now stored
C4_Witness ==
  \E r1 \in Requests, r2 \in Requests :
    /\ r1 < r2
    /\ req[r1].pc = "done" /\ req[r1].cause = "buildfail" /\ req[r1].id = PkgA
    /\ req[r2].retry /\ ServedModule(r2, PkgA)
    /\ depCache = [id \in {PkgA} |-> req[r2].body]

\* request r asked for /@modules/<package> and the package could not be
\* resolved or bundled
FailedModuleRequest(r) ==
  /\ req[r].pc = "done"
  /\ StartsWith(req[r].url, ModulesPrefix)
  /\ req[r].cause \in {"enoent", "badjson", "buildfail"}

\* C5: a virtual-module request whose package cannot be resolved or bundled
\* is answered 404 with a body naming the package, and the error does not
\* leave the middleware.
C5_FailureIs404 ==
  \A r \in Requests :
    FailedModuleRequest(r) =>
      /\ req[r].status = 404
      /\ req[r].body = NotFoundMessage \o SliceFrom(req[r].url, Len(ModulesPrefix))
      /\ ~req[r].escaped

\* C5's case: a package without a readable manifest and a failing build
\* have each been answered, and a later request has been served
C5_Witness ==
  \E r1 \in Requests, r2 \in Requests, r3 \in Requests :
    /\ r1 < r3 /\ r2 < r3
    /\ FailedModuleRequest(r1) /\ req[r1].cause \in {"enoent", "badjson"}
    /\ FailedModuleRequest(r2) /\ req[r2].cause = "buildfail"
    /\ ServedModule(r3, PkgA)
    /\ req[r3].body \in BundleTexts

\* C9: a request takes the @modules branch exactly when its path begins
\* with /@modules/, the id is the text after that prefix, and every other
\* path is routed by its extension.
C9_PrefixRouting ==
  \A r \in Requests :
    req[r].pc # "idle" =>
      /\ (req[r].route = "module") <=> StartsWith(req[r].url, ModulesPrefix)
      /\ req[r].route = "module" => req[r].url = ModulesPrefix \o req[r].id
      /\ (EndsWith(req[r].url, ExtJs) /\ ~StartsWith(req[r].url, ModulesPrefix))
           => req[r].route = "js"

(***************************************************************************)
(* The rewriters on their own: a JavaScript module of the project is read  *)
(* and rewritten, by the .js branch (rewriteImports) or by resolveImports  *)
(* called with the directory of the module's file.                         *)
(***************************************************************************)
JsUrls == {UrlAppJs, UrlTopJs}

\* path.join(rootDir, url), rootDir being the working directory
FilePath(url) == Cwd \o url

\* path.dirname(p) of an absolute path
Dirname(p) ==
  LET segs == Segments(p)
  IN  <<"/">> \o JoinSegments(SubSeq(segs, 1, Len(segs) - 1))

\* the .js branch: the file is read, rewritten and sent
ServeJs ==
  /\ jsPhase = "idle"
  /\ jsOut' = rewriteImports(jsCode)
  /\ jsPhase' = "served"
  /\ UNCHANGED <<jsUrl, jsCode, serverVars, vueVars>>

\* resolveImports(content, path.dirname(filePath))
CallResolveImports ==
  /\ jsPhase = "idle"
  /\ jsOut' = resolveImports(jsCode, Dirname(FilePath(jsUrl)))
  /\ jsPhase' = "resolved"
  /\ UNCHANGED <<jsUrl, jsCode, serverVars, vueVars>>

InitRewrite ==
  /\ req = [r \in Requests |-> NoRequest]
  /\ nreq = 0
  /\ depCache = [id \in {} |-> << >>]
  /\ builds = [id \in PackageIds |-> 0]
  /\ failed = {}
  /\ jsUrl \in JsUrls
  /\ jsCode \in ModuleTexts
  /\ jsOut = << >>
  /\ jsPhase = "idle"
  /\ descriptor = NoDescriptor /\ vueOut = << >> /\ vuePhase = "off"

NextRewrite == ServeJs \/ CallResolveImports

SpecRewrite == InitRewrite /\ [][NextRewrite]_vars

\* the occurrences of the module being rewritten
Imports == parse(jsCode)

SpanText(imp) == Slice(jsCode, imp.s, imp.e)

\* the root-relative url of a relative specifier imported by the module at url
RootRelative(url, specifier) ==
  <<"/">> \o JoinSegments(NormalizeFrom(<< >>,
                            Segments(Dirname(url)) \o Segments(specifier)))

\* what the specification puts at an occurrence: a dynamic or absolute
\* specifier as it is, a relative one resolved, a bare one under /@modules/
SpecifiedText(imp) ==
  IF imp.d > -1 \/ ~imp.hasN \/ StartsWith(SpanText(imp), <<"/">>) THEN SpanText(imp)
  ELSE IF StartsWith(SpanText(imp), <<".">>) THEN RootRelative(jsUrl, SpanText(imp))
  ELSE BareUrl(SpanText(imp))

\* the offset in the output of the k-th occurrence, the occurrences before
\* it having been replaced by the texts of lengths given
RECURSIVE ShiftedStart(_, _, _)
ShiftedStart(imports, texts, k) ==
  IF k = 1 THEN imports[1].s
  ELSE ShiftedStart(imports, texts, k - 1) + Len(texts[k - 1])
         + (imports[k].s - imports[k - 1].s) - (imports[k - 1].e - imports[k - 1].s)

SpecifiedTexts == [k \in 1..Len(Imports) |-> SpecifiedText(Imports[k])]

\* the text the output holds where the specification places occurrence k
OutputAt(k) ==
  LET start == ShiftedStart(Imports, SpecifiedTexts, k)
  IN  Slice(jsOut, start, start + Len(SpecifiedTexts[k]))

\* C6: in a module served as JavaScript the text of every dynamic import
\* span is the same in the output as in the input.
C6_DynamicUntouched ==
  jsPhase = "served" =>
    \A k \in 1..Len(Imports) :
      Imports[k].d > -1 => OutputAt(k) = SpanText(Imports[k])

\* C7: in a module served as JavaScript every static specifier starting
\* with "." is replaced by its root-relative url, one starting with "/" is
\* left as it is, and a bare name becomes /@modules/<name>.
C7_RelativeRewritten ==
  jsPhase = "served" =>
    \A k \in 1..Len(Imports) :
      Imports[k].d = -1 => OutputAt(k) = SpecifiedTexts[k]

\* the edits a rewriter makes: for each occurrence, whether its span is
\* replaced, and by what
EditsOfRewriteImports ==
  [k \in 1..Len(Imports) |->
     [on |-> IsBareName(Imports[k]), text |-> BareUrl(Imports[k].n)]]

EditsOfResolveImports ==
  [k \in 1..Len(Imports) |->
     [on |-> IsResolved(jsCode, Imports[k]),
      text |-> NormalizedPath(Dirname(FilePath(jsUrl)), SpanText(Imports[k]))]]

\* the original text with the spans of the edits replaced and everything
\* else copied, from occurrence k and offset pos on
RECURSIVE Assemble(_, _, _)
Assemble(edits, k, pos) ==
  IF k > Len(Imports) THEN SliceFrom(jsCode, pos)
  ELSE IF edits[k].on
    THEN Slice(jsCode, pos, Imports[k].s) \o edits[k].text
           \o Assemble(edits, k + 1, Imports[k].e)
  ELSE Assemble(edits, k + 1, pos)

FrameKept(edits) ==
  /\ jsOut = Assemble(edits, 1, 0)
  /\ (\A k \in 1..Len(Imports) : ~edits[k].on) => jsOut = jsCode

\* C10: the output of a rewriter is the input with the rewritten spans, and
\* nothing else, replaced: every replacement lies at its span of the
\* original text whatever the lengths of the others, the text outside the
\* spans is kept in order, and with nothing to rewrite the output is the
\* input.
C10_FrameKept ==
  /\ jsPhase = "served" => FrameKept(EditsOfRewriteImports)
  /\ jsPhase = "resolved" => FrameKept(EditsOfResolveImports)

\* C10's case: a served module in which two spans were replaced by longer
\* texts
C10_Witness ==
  /\ jsPhase = "served"
  /\ jsCode = StaticBare \o StaticBare
  /\ jsOut # jsCode

(***************************************************************************)
(* The .vue branch: the file is read, vueParse gives its descriptor, and   *)
(* the script and the compiled template are joined into one module.  A     *)
(* block of the descriptor is << >> when absent (null) and <<content>>     *)
(* when present, its content possibly empty.                               *)
(***************************************************************************)
MaxBlockLen == 2

\* the contents a block may have: up to MaxBlockLen copies of one character
BlockTexts(c) == {[i \in 1..n |-> c] : n \in 0..MaxBlockLen}

Blocks(c) == {<< >>} \cup {<<text>> : text \in BlockTexts(c)}

Descriptors ==
  [script : Blocks("1"), scriptSetup : Blocks("2"), template : Blocks("3")]

\* compileTemplate({source, id}).code: the compiler's output for a template
CompiledCode(source) == <<"h", "(">> \o source \o <<")">>

RenderHead ==
  <<"e", "x", "p", "o", "r", "t", " ", "f", "u", "n", "c", "t", "i", "o",
    "n", " ", "r", "e", "n", "d", "e", "r", "(", "_", "c", "t", "x", ",",
    " ", "_", "c", "a", "c", "h", "e", ",", " ", "$", "p", "r", "o", "p",
    "s", ",", " ", "$", "s", "e", "t", "u", "p", ",", " ", "$", "d", "a",
    "t", "a", ",", " ", "$", "o", "p", "t", "i", "o", "n", "s", ")", " ",
    "{", " ">>

RenderTail == <<" ", "}">>

Indent ==
  <<"\n", " ", " ", " ", " ", " ", " ">>

CombinedTail ==
  <<"\n", " ", " ", " ", " ", " ", " ", " ", " ", " ", " ", " ", " ", " ",
    " ", " ", " ", " ", " ", " ", " ", " ", " ", " ", " ">>

\* the script-setup block first, then the script block
ScriptSetupFirst(d) ==
  IF d.scriptSetup # << >> THEN d.scriptSetup[1]
  ELSE IF d.script # << >> THEN d.script[1]
  ELSE << >>

\* let scriptContent = ""; if (descriptor.script) ... else if
\* (descriptor.scriptSetup) ...
ScriptContent(d) ==
  IF d.script # << >> THEN d.script[1]
  ELSE IF d.scriptSetup # << >> THEN d.scriptSetup[1]
  ELSE << >>

\* let templateContent = ""; if (descriptor.template) ...
TemplateContent(d) ==
  IF d.template # << >>
    THEN RenderHead \o CompiledCode(d.template[1]) \o RenderTail
  ELSE << >>

\* the template literal of combinedCode
CombinedCode(scriptContent, templateContent) ==
  Indent \o scriptContent \o Indent \o templateContent \o CombinedTail

\* fs.readFile settles with the text of a component; d is what vueParse
\* makes of it
VueReadFile(d) ==
  /\ vuePhase = "idle"
  /\ descriptor' = d
  /\ vuePhase' = "read"
  /\ UNCHANGED <<vueOut, serverVars, rewriteVars>>

\* the rest of the branch: the module is put together and sent
VueRespond ==
  /\ vuePhase = "read"
  /\ vueOut' = CombinedCode(ScriptContent(descriptor), TemplateContent(descriptor))
  /\ vuePhase' = "done"
  /\ UNCHANGED <<descriptor, serverVars, rewriteVars>>

InitVue ==
  /\ req = [r \in Requests |-> NoRequest]
  /\ nreq = 0
  /\ depCache = [id \in {} |-> << >>]
  /\ builds = [id \in PackageIds |-> 0]
  /\ failed = {}
  /\ jsUrl = << >> /\ jsCode = << >> /\ jsOut = << >> /\ jsPhase = "off"
  /\ descriptor = NoDescriptor
  /\ vueOut = << >>
  /\ vuePhase = "idle"

NextVue == (\E d \in Descriptors : VueReadFile(d)) \/ VueRespond

SpecVue == InitVue /\ [][NextVue]_vars

====
